---- MODULE Spec2Model ----
(***************************************************************************)
(* Model of the capture / analysis / speech orchestration of the visual    *)
(* assistant (hackathon-volio).                                            *)
(*                                                                         *)
(*  - the speech coordinator: speak, speakWithWebTTS, setSpeechState,      *)
(*    cancelAllSpeech and the listener registry (utils/speech);            *)
(*  - the tap-to-describe page: handleCapture and handleApiError with the  *)
(*    rate-limit retry timer (app/page.tsx, single-mode CameraView);       *)
(*  - the two-mode page: switchMode, startFocusTimer,                      *)
(*    handleNarrationCapture, the guidance effect, optimizedAnalysis and   *)
(*    streamAnalysis (app/page.tsx, two-mode CameraView).                  *)
(*                                                                         *)
(* JavaScript runs each handler to its next await without interleaving,    *)
(* so an action is one such run.  A callback handed to setTimeout or to    *)
(* an effect keeps the values of the render that created it; the model     *)
(* stores those values with the timer (the "snap" fields).                 *)
(***************************************************************************)
EXTENDS Integers, Sequences, FiniteSets, TLC

----------------------------------------------------------------------------
(* Bounds of the model *)

\* number of speak() calls issued in the speech specification
MaxCalls == 3

\* number of user taps on the tap-to-describe page
MaxTaps == 2

\* automatic retries followed per tap (the model stops a chain there)
MaxAutoRetries == 3

\* capture cycles started on the two-mode page
MaxCycles == 2

\* focus timeouts (and countdown intervals) pending at once
MaxFocusTimers == 1

\* distinct cache keys that analyses may store under
MaxKeys == 12

\* results that reach the description history
MaxResults == 8

\* Analysis Sessions whose stream resources are followed
MaxSessions == 3

\* guidance timer periods counted since the last guidance update
MaxPeriods == 5

\* chunks the model's stream yields for one request to the describe endpoint
MaxChunks == 3

\* longest hash and largest threshold given to the hash comparison
MaxHashLen == 3
MaxThreshold == 3

\* video sizes run over the multiples of SizeStep up to MaxSizeSteps of them
MaxSizeSteps == 10

\* speech-end listeners that callers may register
Listeners == {"L1", "L2"}

----------------------------------------------------------------------------
(* Program constants *)

\* speak(): texts shorter than this skip the remote backend
MinGeminiLen == 10

\* lengths of the texts handed to speak(): one below, one above MinGeminiLen
SpeakTextLens == {5, 12}

\* handleApiError: "if (retryCount < 2)  // Max 2 retries"
RetryCap == 2

\* descriptionHistory keeps the newest entry and prev.slice(0, 4)
HistoryKeep == 4

\* texts the analysis backend may return
Descs == {"d1", "d2"}

\* null where a description is expected
NoDescription == [text |-> 0, mode |-> "none"]

\* streamAnalysis: "fullText.length >= 30"
SpeakThreshold == 30

\* areImagesSimilar: "threshold: number = 6"
SimilarThreshold == 6

\* optimizedAnalysis: "if (newCache.size > 10)"
CacheLimit == 10

\* calculateHashDistance: "return Infinity", above every distance and threshold
Infinity == 999

\* captureImage: "const maxWidth = 400; const maxHeight = 300;"
maxWidth == 400
maxHeight == 300

\* the guidance effect: "}, 4000); // Wait 4 seconds before next update"
GuidancePeriodMs == 4000

\* lengths of fullText in chunk events and in the complete event
ChunkLens == {20, 35}
FinalLens == {35}

----------------------------------------------------------------------------
VARIABLES
    \* ---- speech coordinator (module-level state of utils/speech) ----
    isSpeaking,        \* let isSpeaking
    speechCallbacks,   \* let speechCallbacks: sequence of listeners
    cbFired,           \* listener -> number of times it has been invoked
    cbCall,            \* history: listener -> the speak() call it was registered during, 0 = none
    calls,             \* speak() call -> [pc, len, force]
    audioDom,          \* <audio id="gemini-tts-audio"> elements, document order
    synth,             \* utterance window.speechSynthesis is speaking, 0 = none
    speechSupported,   \* window.speechSynthesis exists on this host
    \* ---- React state of CameraView (both versions of app/page.tsx) ----
    isLoading,
    isCameraReady,
    retryCount,
    error,             \* "none" stands for null
    currentDescription,
    descriptionHistory,
    \* ---- tap-to-describe page: handleCapture / handleApiError ----
    chains,            \* tap -> [pc, rc, retries]: the capture it started and
                       \* the automatic retries that followed
    \* ---- two-mode page: state, refs and pending callbacks ----
    currentMode,
    lastImageHash,     \* << >> stands for ''
    imageCache,        \* Map in insertion order: sequence of [key, val]
    focusTimers,       \* pending focus timeouts, oldest first: their closures
    focusTimerRef,     \* index in focusTimers of focusTimerRef.current, 0 = none
    countdowns,        \* number of live countdown intervals
    debounce,          \* the pending debounce timeout: << >> or <<closure>>
    guidanceTimers,    \* pending guidance timeouts, oldest first: their closures
    guidanceTimerRef,  \* index in guidanceTimers of guidanceTimerRef.current
    cycles,            \* capture cycle -> its position and session state
    quiesced,          \* history: narration was entered with a guidance timer pending
    streams,           \* Analysis Session -> its position, its EventSource and
                       \* the reader of its response body
    loop,              \* one run of the guidance effect: its closure and the
                       \* timer periods since its last update
    route,             \* one request to the describe endpoint: the position of
                       \* start(controller) and the events enqueued so far
    calc               \* one call of a pure helper: its arguments and its result

speechVars == <<isSpeaking, speechCallbacks, cbFired, cbCall, calls, audioDom, synth,
                speechSupported>>

pageVars == <<isLoading, isCameraReady, retryCount, error, currentDescription,
              descriptionHistory>>

ctlVars == <<currentMode, lastImageHash, imageCache, focusTimers,
             focusTimerRef, countdowns, debounce, guidanceTimers, guidanceTimerRef,
             cycles, quiesced, streams, loop, route, calc>>

vars == <<speechVars, pageVars, chains, ctlVars>>

----------------------------------------------------------------------------
(* Speech coordinator *)

CallIds == 1..MaxCalls

NoCall == [pc |-> "unused", len |-> 0, force |-> FALSE]

\* the module state as one value, so that the helpers compose as in the source
SpeechState ==
    [isSpeaking |-> isSpeaking, speechCallbacks |-> speechCallbacks,
     cbFired |-> cbFired, calls |-> calls, audioDom |-> audioDom,
     synth |-> synth]

RECURSIVE FireAll(_, _)
\* callbacks.forEach(callback => callback())
FireAll(cbs, fired) ==
    IF cbs = << >> THEN fired
    ELSE FireAll(Tail(cbs), [fired EXCEPT ![Head(cbs)] = @ + 1])

\* setSpeechState(speaking)
setSpeechState(s, speaking) ==
    IF speaking
    THEN [s EXCEPT !.isSpeaking = TRUE]
    ELSE [s EXCEPT !.isSpeaking = FALSE,
                   !.speechCallbacks = << >>,
                   !.cbFired = FireAll(s.speechCallbacks, s.cbFired)]

\* clearSpeechEndCallbacks()
clearSpeechEndCallbacks(s) == [s EXCEPT !.speechCallbacks = << >>]

\* window.speechSynthesis.cancel(): the utterance being spoken stops at once;
\* its end/error event is delivered later (pc "webCancelled")
SynthCancel(s) ==
    IF s.synth = 0 THEN s
    ELSE [s EXCEPT !.synth = 0, !.calls[s.synth].pc = "webCancelled"]

\* the sequence q without its i-th element
RemoveAt(q, i) == [j \in 1..(Len(q) - 1) |-> IF j < i THEN q[j] ELSE q[j + 1]]

\* existingAudio = document.getElementById('gemini-tts-audio'): the first such
\* element of the document; pause() and remove() it.  A paused element never
\* fires "ended", so the call that owns it stays unsettled (pc "silenced").
RemoveExistingAudio(s) ==
    IF s.audioDom = << >> THEN s
    ELSE LET c == Head(s.audioDom) IN
         [s EXCEPT !.audioDom = Tail(s.audioDom),
                   !.calls[c].pc = IF s.calls[c].pc = "audio" THEN "silenced"
                                   ELSE s.calls[c].pc]

\* speakWithWebTTS(text, speed) of call c, up to speechSynthesis.speak(utterance)
speakWithWebTTS(s, c, supported) ==
    IF ~supported
    THEN [setSpeechState(s, FALSE) EXCEPT !.calls[c].pc = "rejected"]
    ELSE LET s1 == SynthCancel(setSpeechState(s, TRUE)) IN
         [s1 EXCEPT !.synth = c, !.calls[c].pc = "web"]

\* a branch test that forgets the forceWebTTS option
SkipsGeminiWhenShort(len, force) == len < MinGeminiLen

\* speak(): the branch test before the remote request
SkipsGemini(len, force) == force \/ len < MinGeminiLen

\* speak(text, options) of call c, up to its first await
SpeakEntry(s, c, len, force, supported) ==
    LET s1 == setSpeechState([s EXCEPT !.calls[c] =
                                [pc |-> "fetching", len |-> len, force |-> force]],
                             TRUE)
        s2 == IF supported THEN SynthCancel(s1) ELSE s1
        s3 == RemoveExistingAudio(s2)
    IN IF SkipsGemini(len, force)
       THEN speakWithWebTTS(s3, c, supported)
       ELSE s3

\* outcomes of the request to /api/tts and of audio.play()
TtsOutcomes == {"audio", "playRejected", "fallback", "notOk", "networkError"}

\* a speak() that gives up when the remote attempt fails
SpeakAfterFetchNoFallback(s, c, outcome, supported) ==
    IF outcome = "audio"
    THEN [s EXCEPT !.audioDom = Append(s.audioDom, c), !.calls[c].pc = "audio"]
    ELSE [setSpeechState(s, FALSE) EXCEPT !.calls[c].pc = "rejected"]

\* speak() of call c from the arrival of the /api/tts response on
SpeakAfterFetch(s, c, outcome, supported) ==
    IF outcome = "audio"
    THEN \* new Audio(audioUrl); document.body.appendChild(audio); audio.play()
         [s EXCEPT !.audioDom = Append(s.audioDom, c), !.calls[c].pc = "audio"]
    ELSE \* every other path: setSpeechState(false); speakWithWebTTS(text, speed)
         \* (a rejected play() first removes the element it had just appended)
         speakWithWebTTS(setSpeechState(s, FALSE), c, supported)

\* audio.onended of call c
OnAudioEnded(s, c) ==
    [setSpeechState(s, FALSE) EXCEPT !.calls[c].pc = "resolved"]

\* audio.onerror of call c: the element stays in the document
OnAudioError(s, c, supported) ==
    speakWithWebTTS(setSpeechState(s, FALSE), c, supported)

\* utterance.onend / utterance.onerror of call c
OnUtteranceEvent(s, c, kind) ==
    [setSpeechState(s, FALSE) EXCEPT
        !.calls[c].pc = IF kind = "end" THEN "resolved" ELSE "rejected"]

\* cancelAllSpeech()
cancelAllSpeech(s, supported) ==
    LET s1 == IF supported THEN SynthCancel(s) ELSE s
        s2 == RemoveExistingAudio(s1)
    IN clearSpeechEndCallbacks(setSpeechState(s2, FALSE))

\* assign the module state from a value computed by the helpers
SetSpeech(s) ==
    /\ isSpeaking' = s.isSpeaking
    /\ speechCallbacks' = s.speechCallbacks
    /\ cbFired' = s.cbFired
    /\ calls' = s.calls
    /\ audioDom' = s.audioDom
    /\ synth' = s.synth
    /\ UNCHANGED cbCall

NextCall == Cardinality({c \in CallIds : calls[c].pc # "unused"}) + 1

\* a caller invokes speak(text, {forceWebTTS})
Speak(len, force) ==
    /\ NextCall \in CallIds
    /\ SetSpeech(SpeakEntry(SpeechState, NextCall, len, force, speechSupported))
    /\ UNCHANGED <<speechSupported, pageVars, chains, ctlVars>>

\* the response of /api/tts arrives for call c
TtsResponse(c, outcome) ==
    /\ calls[c].pc = "fetching"
    /\ SetSpeech(SpeakAfterFetch(SpeechState, c, outcome, speechSupported))
    /\ UNCHANGED <<speechSupported, pageVars, chains, ctlVars>>

AudioEnded(c) ==
    /\ calls[c].pc = "audio"
    /\ SetSpeech(OnAudioEnded(SpeechState, c))
    /\ UNCHANGED <<speechSupported, pageVars, chains, ctlVars>>

AudioError(c) ==
    /\ calls[c].pc = "audio"
    /\ SetSpeech(OnAudioError(SpeechState, c, speechSupported))
    /\ UNCHANGED <<speechSupported, pageVars, chains, ctlVars>>

\* the utterance of call c finishes or fails while it is being spoken
UtteranceEvent(c, kind) ==
    /\ calls[c].pc = "web"
    /\ synth = c
    /\ SetSpeech([OnUtteranceEvent(SpeechState, c, kind) EXCEPT !.synth = 0])
    /\ UNCHANGED <<speechSupported, pageVars, chains, ctlVars>>

\* the event of an utterance that cancel() stopped is delivered: "error"
\* (interrupted / canceled) or, on some hosts, "end"
UtteranceCancelEvent(c, kind) ==
    /\ calls[c].pc = "webCancelled"
    /\ SetSpeech(OnUtteranceEvent(SpeechState, c, kind))
    /\ UNCHANGED <<speechSupported, pageVars, chains, ctlVars>>

\* positions of a speak() call that has neither settled nor lost its playback
InProgressPcs == {"fetching", "audio", "web"}

\* the newest speak() call that is in progress, 0 when there is none
CallInProgress ==
    IF \E c \in CallIds : calls[c].pc \in InProgressPcs
    THEN CHOOSE c \in CallIds :
            /\ calls[c].pc \in InProgressPcs
            /\ \A d \in CallIds : calls[d].pc \in InProgressPcs => d <= c
    ELSE 0

\* addSpeechEndCallback(callback); each listener is registered at most once
AddSpeechEndCallback(l) ==
    /\ cbFired[l] = 0
    /\ \A i \in 1..Len(speechCallbacks) : speechCallbacks[i] # l
    /\ speechCallbacks' = Append(speechCallbacks, l)
    /\ cbCall' = [cbCall EXCEPT ![l] = CallInProgress]
    /\ UNCHANGED <<isSpeaking, cbFired, calls, audioDom, synth, speechSupported,
                   pageVars, chains, ctlVars>>

\* playbacks that are audible: playing audio elements and the spoken utterance
ActivePlaybacks ==
    {c \in CallIds : calls[c].pc = "audio"} \cup (IF synth = 0 THEN {} ELSE {synth})

CancelAllSpeech ==
    /\ SetSpeech(cancelAllSpeech(SpeechState, speechSupported))
    /\ UNCHANGED <<speechSupported, pageVars, chains, ctlVars>>

SpeechInit(hostHasSpeech) ==
    /\ isSpeaking = FALSE
    /\ speechCallbacks = << >>
    /\ cbFired = [l \in Listeners |-> 0]
    /\ cbCall = [l \in Listeners |-> 0]
    /\ calls = [c \in CallIds |-> NoCall]
    /\ audioDom = << >>
    /\ synth = 0
    /\ speechSupported = hostHasSpeech

SpeechNext ==
    \/ \E len \in SpeakTextLens, force \in BOOLEAN : Speak(len, force)
    \/ \E c \in CallIds, o \in TtsOutcomes : TtsResponse(c, o)
    \/ \E c \in CallIds : AudioEnded(c)
    \/ \E c \in CallIds : AudioError(c)
    \/ \E c \in CallIds, k \in {"end", "error"} : UtteranceEvent(c, k)
    \/ \E c \in CallIds, k \in {"end", "error"} : UtteranceCancelEvent(c, k)
    \/ \E l \in Listeners : AddSpeechEndCallback(l)
    \/ CancelAllSpeech


----------------------------------------------------------------------------
(* React state shared by the two versions of CameraView *)

\* an updater that slices nothing off
PrependKeepAll(hist, d) == <<d>> \o hist

\* setDescriptionHistory(prev => [newDescription, ...prev.slice(0, 4)])
PrependHistory(hist, d) == <<d>> \o SubSeq(hist, 1, IF Len(hist) < HistoryKeep
                                                     THEN Len(hist) ELSE HistoryKeep)

PageInit ==
    /\ isLoading = FALSE
    /\ isCameraReady = FALSE
    /\ retryCount = 0
    /\ error = "none"
    /\ currentDescription = NoDescription
    /\ descriptionHistory = << >>

\* video.onloadedmetadata: setIsCameraReady(true)
CameraReady ==
    /\ ~isCameraReady
    /\ isCameraReady' = TRUE
    /\ UNCHANGED <<isLoading, retryCount, error, currentDescription,
                   descriptionHistory>>
    /\ UNCHANGED <<speechVars, chains, ctlVars>>

----------------------------------------------------------------------------
(* Tap-to-describe page: handleCapture and handleApiError.                 *)
(* handleCapture and handleApiError are re-created by every render and     *)
(* close over that render's isLoading, isCameraReady and retryCount.  A    *)
(* tap calls the newest handleCapture; the retry timer that handleApiError *)
(* sets calls the handleCapture of the render that handled the tap, so a   *)
(* chain keeps the retryCount of that render in rc.                        *)

TapIds == 1..MaxTaps

NoChain == [pc |-> "unused", rc |-> 0, retries |-> 0]

\* positions of a chain between "setIsLoading(true)" and "finally"
CaptureInFlightPcs ==
    {"captureSpeech", "offlineSpeech", "fetching", "rateSpeech", "apiErrSpeech",
     "descSpeech", "catchSpeech"}

\* handleCapture(), after its guard, up to "await speakWithSettings('Capturing image...')"
\* rc is the retryCount the closure holds
HandleCaptureEntry(ch, rc) ==
    /\ isLoading' = TRUE
    /\ error' = "none"
    /\ retryCount' = IF rc > 0 THEN 0 ELSE retryCount
    /\ chains' = [chains EXCEPT ![ch].pc = "captureSpeech", ![ch].rc = rc]
    /\ UNCHANGED <<isCameraReady, currentDescription, descriptionHistory>>

\* handleCapture(): "finally { setIsLoading(false) }"
CaptureFinally(ch, pc2) ==
    /\ isLoading' = FALSE
    /\ chains' = [chains EXCEPT ![ch].pc = pc2]

\* handleCapture(): "catch (err)": setError(errorMessage); await speak(errorMessage)
CaptureCatch(ch) ==
    /\ error' = "generic"
    /\ chains' = [chains EXCEPT ![ch].pc = "catchSpeech"]
    /\ UNCHANGED <<isLoading, isCameraReady, retryCount, currentDescription,
                   descriptionHistory>>

NextTap == Cardinality({ch \in TapIds : chains[ch].pc # "unused"}) + 1

\* onClick / onKeyDown: the newest handleCapture, whose guard reads the
\* current isLoading and isCameraReady
Tap ==
    /\ NextTap \in TapIds
    /\ ~(isLoading \/ ~isCameraReady)
    /\ HandleCaptureEntry(NextTap, retryCount)
    /\ UNCHANGED <<speechVars, ctlVars>>

\* handleApiError, case RATE_LIMIT_EXCEEDED, after its speech: the test that
\* decides whether a retry timer is set; rc is the closure's retryCount
SchedulesRetry(rc) == rc < RetryCap

\* a reset that looks at the closure's retryCount, as the one at the entry of
\* handleCapture does
RetryCountIfStale(rc, count) == IF rc > 0 THEN 0 ELSE count

\* handleCapture, after the description was spoken: "setRetryCount(0)"
RetryCountOnSuccess(rc, count) == 0

\* a speech request that a chain awaits resolves (ok) or rejects
CaptureSpeechSettles(ch, ok) ==
    LET pc == chains[ch].pc IN
    /\ UNCHANGED <<speechVars, ctlVars>>
    /\ pc \in {"captureSpeech", "offlineSpeech", "rateSpeech", "apiErrSpeech",
               "descSpeech", "catchSpeech"}
    /\ IF pc = "catchSpeech"
       THEN \* a rejection leaves the catch block; finally runs either way
            /\ CaptureFinally(ch, "done")
            /\ UNCHANGED <<isCameraReady, retryCount, error, currentDescription,
                           descriptionHistory>>
       ELSE IF ~ok
       THEN CaptureCatch(ch)
       ELSE CASE pc = "captureSpeech" ->
                   \* frame captured; navigator.onLine is read in CaptureOnline
                   /\ chains' = [chains EXCEPT ![ch].pc = "captured"]
                   /\ UNCHANGED pageVars
              [] pc = "rateSpeech" ->
                   IF SchedulesRetry(chains[ch].rc) /\ chains[ch].retries < MaxAutoRetries
                   THEN \* setTimeout(..., retryAfter * 1000); break; return; finally
                        /\ isLoading' = FALSE
                        /\ chains' = [chains EXCEPT ![ch].pc = "timer",
                                                    ![ch].retries = @ + 1]
                        /\ UNCHANGED <<isCameraReady, retryCount, error,
                                       currentDescription, descriptionHistory>>
                   ELSE /\ CaptureFinally(ch, "done")
                        /\ UNCHANGED <<isCameraReady, retryCount, error,
                                       currentDescription, descriptionHistory>>
              [] pc = "descSpeech" ->
                   \* setRetryCount(0); finally
                   /\ retryCount' = RetryCountOnSuccess(chains[ch].rc, retryCount)
                   /\ CaptureFinally(ch, "done")
                   /\ UNCHANGED <<isCameraReady, error, currentDescription,
                                  descriptionHistory>>
              [] OTHER ->
                   \* offlineSpeech, apiErrSpeech: return; finally
                   /\ CaptureFinally(ch, "done")
                   /\ UNCHANGED <<isCameraReady, retryCount, error,
                                  currentDescription, descriptionHistory>>

\* handleCapture(): "if (!navigator.onLine)" and the request to /api/describe
CaptureOnline(ch, online) ==
    /\ chains[ch].pc = "captured"
    /\ UNCHANGED <<speechVars, ctlVars>>
    /\ chains' = [chains EXCEPT ![ch].pc = IF online THEN "fetching"
                                           ELSE "offlineSpeech"]
    /\ UNCHANGED pageVars

\* answers of /api/describe to the tap-to-describe page
DescribeOutcomes == {"ok", "rateLimit", "invalidKey", "invalidImage", "other",
                     "network"}

\* handleApiError(response): setError(...) of each case
ApiErrorOf(outcome) ==
    CASE outcome = "rateLimit" -> "quota"
      [] outcome = "invalidKey" -> "apikey"
      [] outcome = "invalidImage" -> "image"
      [] OTHER -> "api"

\* the response of /api/describe arrives (or fetch throws)
CaptureResponse(ch, outcome, d) ==
    /\ chains[ch].pc = "fetching"
    /\ UNCHANGED <<speechVars, ctlVars>>
    /\ CASE outcome = "ok" ->
              \* setCurrentDescription; setDescriptionHistory; await speak
              /\ currentDescription' = [text |-> d, mode |-> "narration"]
              /\ descriptionHistory' = PrependHistory(descriptionHistory, [text |-> d, mode |-> "narration"])
              /\ chains' = [chains EXCEPT ![ch].pc = "descSpeech"]
              /\ UNCHANGED <<isLoading, isCameraReady, retryCount, error>>
         [] outcome = "network" -> CaptureCatch(ch)
         [] OTHER ->
              /\ error' = ApiErrorOf(outcome)
              /\ chains' = [chains EXCEPT ![ch].pc =
                              IF outcome = "rateLimit" THEN "rateSpeech"
                              ELSE "apiErrSpeech"]
              /\ UNCHANGED <<isLoading, isCameraReady, retryCount,
                             currentDescription, descriptionHistory>>

\* the retry timer of handleApiError fires:
\* setError(null); setRetryCount(prev => prev + 1); await speak('Retrying...')
RetryTimerFires(ch) ==
    /\ chains[ch].pc = "timer"
    /\ UNCHANGED <<speechVars, ctlVars>>
    /\ error' = "none"
    /\ retryCount' = retryCount + 1
    /\ chains' = [chains EXCEPT ![ch].pc = "retrySpeech"]
    /\ UNCHANGED <<isLoading, isCameraReady, currentDescription, descriptionHistory>>

\* the timer callback after 'Retrying image analysis...': handleCapture() of
\* the render that set the timer; its guard reads that render's isLoading
\* (false) and isCameraReady (true).  A rejected speech ends the callback.
RetryCalls(ch, ok) ==
    /\ chains[ch].pc = "retrySpeech"
    /\ UNCHANGED <<speechVars, ctlVars>>
    /\ IF ok
       THEN HandleCaptureEntry(ch, chains[ch].rc)
       ELSE /\ chains' = [chains EXCEPT ![ch].pc = "done"]
            /\ UNCHANGED pageVars

CaptureNext ==
    \/ CameraReady
    \/ Tap
    \/ \E ch \in TapIds, ok \in BOOLEAN : CaptureSpeechSettles(ch, ok)
    \/ \E ch \in TapIds, online \in BOOLEAN : CaptureOnline(ch, online)
    \/ \E ch \in TapIds, o \in DescribeOutcomes, d \in Descs : CaptureResponse(ch, o, d)
    \/ \E ch \in TapIds : RetryTimerFires(ch)
    \/ \E ch \in TapIds, ok \in BOOLEAN : RetryCalls(ch, ok)

----------------------------------------------------------------------------
----------------------------------------------------------------------------
(* Image fingerprints (utils/imageHash) *)

\* a hash is a sequence of bits; the frames the camera may deliver: an even
\* scene and a scene 7 samples away from it
FrameHashes ==
    { <<0, 0, 0, 0, 0, 0, 0, 0>>,
      <<1, 1, 1, 1, 1, 1, 1, 0>> }

RECURSIVE DiffCount(_, _)
\* the loop of calculateHashDistance
DiffCount(h1, h2) ==
    IF h1 = << >> THEN 0
    ELSE (IF Head(h1) # Head(h2) THEN 1 ELSE 0) + DiffCount(Tail(h1), Tail(h2))

calculateHashDistance(hash1, hash2) ==
    IF Len(hash1) # Len(hash2) THEN Infinity ELSE DiffCount(hash1, hash2)

\* a comparison that would leave out the distance equal to the threshold
areImagesSimilarBelow(hash1, hash2, threshold) ==
    calculateHashDistance(hash1, hash2) < threshold

areImagesSimilar(hash1, hash2, threshold) ==
    calculateHashDistance(hash1, hash2) <= threshold

----------------------------------------------------------------------------
(* The pure helpers, each applied once to arguments drawn within the bounds.  *)
(* canvas.width and canvas.height hold whole numbers: the quotient assigned   *)
(* to them is truncated, and the division is taken as exact.                  *)

\* the target size of captureImage for a video of the given size
TargetSize(videoWidth, videoHeight) ==
    IF videoWidth > maxWidth \/ videoHeight > maxHeight
    THEN IF videoWidth > videoHeight
         THEN [width |-> maxWidth, height |-> (maxWidth * videoHeight) \div videoWidth]
         ELSE [width |-> (maxHeight * videoWidth) \div videoHeight, height |-> maxHeight]
    ELSE [width |-> videoWidth, height |-> videoHeight]

NoCalc == [fn |-> "none", pc |-> "done", hash1 |-> << >>, hash2 |-> << >>,
           threshold |-> 0, distance |-> 0, similar |-> FALSE,
           video |-> [width |-> 0, height |-> 0],
           target |-> [width |-> 0, height |-> 0]]

BitStrings == UNION {[1..n -> {0, 1}] : n \in 0..MaxHashLen}

SizeStep == 80

VideoSizes == [width : {k * SizeStep : k \in 0..MaxSizeSteps},
               height : {k * SizeStep : k \in 0..MaxSizeSteps}]

HashInputs ==
    {[NoCalc EXCEPT !.fn = "areImagesSimilar", !.pc = "call", !.hash1 = a,
                    !.hash2 = b, !.threshold = t] :
        a \in BitStrings, b \in BitStrings, t \in 0..MaxThreshold}

SizeInputs ==
    {[NoCalc EXCEPT !.fn = "captureImage", !.pc = "call", !.video = v] :
        v \in VideoSizes}

SetCalc(v) ==
    /\ calc' = v
    /\ UNCHANGED <<speechVars, pageVars, chains, currentMode, lastImageHash,
                   imageCache, focusTimers, focusTimerRef, countdowns, debounce,
                   guidanceTimers, guidanceTimerRef, cycles, quiesced, streams,
                   loop, route>>

CompareHashes ==
    /\ calc.fn = "areImagesSimilar" /\ calc.pc = "call"
    /\ SetCalc([calc EXCEPT
                  !.pc = "done",
                  !.distance = calculateHashDistance(calc.hash1, calc.hash2),
                  !.similar = areImagesSimilar(calc.hash1, calc.hash2, calc.threshold)])

ComputeTargetSize ==
    /\ calc.fn = "captureImage" /\ calc.pc = "call"
    /\ SetCalc([calc EXCEPT
                  !.pc = "done",
                  !.target = TargetSize(calc.video.width, calc.video.height)])

PureNext ==
    \/ CompareHashes
    \/ ComputeTargetSize

----------------------------------------------------------------------------
(* Two-mode page: state as one value, so that the handlers compose *)

CycleIds == 1..MaxCycles

NoSnap == [ld |-> FALSE, cam |-> FALSE, hash |-> << >>, cache |-> << >>]

\* pc: position of the cycle; snap: the render its callback closed over;
\* hash: currentHash; sess: Analysis Sessions opened; fallback: the session is
\* the one of optimizedAnalysis' catch; fullText, hasStartedSpeaking: locals
\* of streamAnalysis; termSeen: a complete/error event was read; final: the
\* text of the complete event; spoke: speech requests of the session for
\* analysis text; spokeAt: length of fullText when a chunk event spoke.
\* History: trigBusy, afterQuiesce, superseded.
NoCycle ==
    [pc |-> "unused", mode |-> "none", snap |-> NoSnap, hash |-> << >>,
     sess |-> 0, fallback |-> FALSE, fullText |-> 0,
     hasStartedSpeaking |-> FALSE, termSeen |-> FALSE, final |-> 0,
     spoke |-> 0, spokeAt |-> 0, trigBusy |-> FALSE, afterQuiesce |-> FALSE,
     superseded |-> FALSE]

\* positions between setIsLoading(true) and the finally block
InFlightPcs == {"hashing", "streaming", "completeSpeech", "errorSpeech", "catchSpeech"}

CtlState ==
    [isLoading |-> isLoading, isCameraReady |-> isCameraReady,
     retryCount |-> retryCount, error |-> error,
     currentDescription |-> currentDescription,
     descriptionHistory |-> descriptionHistory,
     currentMode |-> currentMode,
     lastImageHash |-> lastImageHash, imageCache |-> imageCache,
     focusTimers |-> focusTimers, focusTimerRef |-> focusTimerRef,
     countdowns |-> countdowns, debounce |-> debounce,
     guidanceTimers |-> guidanceTimers, guidanceTimerRef |-> guidanceTimerRef,
     cycles |-> cycles, quiesced |-> quiesced]

SetCtl(st) ==
    /\ isLoading' = st.isLoading
    /\ isCameraReady' = st.isCameraReady
    /\ retryCount' = st.retryCount
    /\ error' = st.error
    /\ currentDescription' = st.currentDescription
    /\ descriptionHistory' = st.descriptionHistory
    /\ currentMode' = st.currentMode
    /\ lastImageHash' = st.lastImageHash
    /\ imageCache' = st.imageCache
    /\ focusTimers' = st.focusTimers
    /\ focusTimerRef' = st.focusTimerRef
    /\ countdowns' = st.countdowns
    /\ debounce' = st.debounce
    /\ guidanceTimers' = st.guidanceTimers
    /\ guidanceTimerRef' = st.guidanceTimerRef
    /\ cycles' = st.cycles
    /\ quiesced' = st.quiesced
    /\ UNCHANGED <<speechVars, chains, streams, loop, route, calc>>

\* the values a callback created now closes over: isLoading, isCameraReady and,
\* through optimizedAnalysis, lastImageHash and imageCache
RenderSnap(st) ==
    [ld |-> st.isLoading, cam |-> st.isCameraReady, hash |-> st.lastImageHash,
     cache |-> st.imageCache]

\* a ref after the timer at index i has left the pending list; a ref to a
\* timer that has fired behaves as null (clearTimeout does nothing)
RefAfterRemoval(ref, i) == IF ref = i THEN 0 ELSE IF ref > i THEN ref - 1 ELSE ref

\* a cycle whose callback has returned: nothing of it is referenced any more
Ended(cy) == [NoCycle EXCEPT !.pc = "done", !.mode = cy.mode]

\* a cycle whose session promise can no longer settle: readStream has returned
\* and nothing holds resolve or reject
Hung(cy) == [NoCycle EXCEPT !.pc = "hung", !.mode = cy.mode]

\* scheduleNextGuidanceUpdate(): guidanceTimerRef.current = setTimeout(..., 4000)
scheduleNextGuidanceUpdate(st, snap) ==
    [st EXCEPT !.guidanceTimers = Append(@, snap),
               !.guidanceTimerRef = Len(st.guidanceTimers) + 1]

\* if (guidanceTimerRef.current) { clearInterval(...); guidanceTimerRef.current = null }
ClearGuidanceTimer(st) ==
    IF st.guidanceTimerRef = 0 THEN st
    ELSE [st EXCEPT !.guidanceTimers = RemoveAt(@, st.guidanceTimerRef),
                    !.guidanceTimerRef = 0]

\* if (focusTimerRef.current) { clearTimeout(...); focusTimerRef.current = null }
ClearFocusTimer(st) ==
    IF st.focusTimerRef = 0 THEN st
    ELSE [st EXCEPT !.focusTimers = RemoveAt(@, st.focusTimerRef),
                    !.focusTimerRef = 0]

\* switchMode(newMode) up to "await speakWithSettings(...)" (what follows the
\* await only resets the countdown display), and the guidance
\* effect that the render of the new mode runs (cleanup of the old effect, then
\* scheduleNextGuidanceUpdate() when the new mode is guidance)
switchMode(st, newMode) ==
    LET s1 == ClearGuidanceTimer(ClearFocusTimer(st))
        s2 == [s1 EXCEPT
                 !.currentMode = newMode,
                 !.quiesced = (newMode = "narration" /\ st.guidanceTimers # << >>),
                 !.cycles = [c \in CycleIds |->
                               IF /\ newMode = "narration"
                                  /\ st.cycles[c].mode = "guidance"
                                  /\ st.cycles[c].pc \in InFlightPcs
                               THEN [st.cycles[c] EXCEPT !.superseded = TRUE]
                               ELSE st.cycles[c]]]
    IN IF newMode = "guidance"
       THEN scheduleNextGuidanceUpdate(s2, RenderSnap(s2))
       ELSE s2

\* startFocusTimer() after its guard.  The number that setFocusTimer keeps for
\* the countdown display is read by nothing but the display and the countdown
\* interval, which is modelled by when it ends.
startFocusTimer(st) ==
    [st EXCEPT !.focusTimers = Append(@, RenderSnap(st)),
               !.focusTimerRef = Len(st.focusTimers) + 1,
               !.countdowns = @ + 1]

\* the guard of handleNarrationCapture, on the values its closure holds
NarrationGuardReturns(snap) == snap.ld \/ ~snap.cam

\* a handleNarrationCapture() that would leave the pending timer in place
handleNarrationCaptureNoClear(st, snap) ==
    IF NarrationGuardReturns(snap) THEN st
    ELSE [st EXCEPT !.debounce =
            Append(@, [snap |-> snap, busy |-> FALSE, replaced |-> FALSE])]

\* handleNarrationCapture() of the render snap: guard, clearTimeout of the
\* pending debounce timer, setTimeout(..., 500).  History: busy, whether a
\* narration cycle was in flight when the call was made; replaced, whether the
\* call cleared a pending timer
handleNarrationCapture(st, snap) ==
    IF NarrationGuardReturns(snap) THEN st
    ELSE [st EXCEPT !.debounce =
            << [snap |-> snap,
                busy |-> \E c \in CycleIds : /\ st.cycles[c].mode = "narration"
                                             /\ st.cycles[c].pc \in InFlightPcs,
                replaced |-> st.debounce # << >>] >>]

----------------------------------------------------------------------------
(* optimizedAnalysis and streamAnalysis *)

\* a key that leaves the mode out
CacheKeyOfHash(hash, mode) == <<hash, "any">>

\* `${currentHash}-${mode}`
CacheKey(hash, mode) == <<hash, mode>>

\* imageCache.get(cacheKey); NoDescription stands for undefined
CacheGet(cache, key) ==
    IF \E i \in 1..Len(cache) : cache[i].key = key
    THEN cache[CHOOSE i \in 1..Len(cache) : cache[i].key = key].val
    ELSE NoDescription

\* newCache.set(cacheKey, newDescription): a Map keeps the place of a key it has
MapSet(cache, key, val) ==
    IF \E i \in 1..Len(cache) : cache[i].key = key
    THEN [i \in 1..Len(cache) |->
            IF cache[i].key = key THEN [key |-> key, val |-> val] ELSE cache[i]]
    ELSE Append(cache, [key |-> key, val |-> val])

\* an updater that never drops a key
CachePutKeepAll(prev, key, val) == MapSet(prev, key, val)

\* the updater of setImageCache: set, then drop the first key above 10 entries
CachePut(prev, key, val) ==
    LET newCache == MapSet(prev, key, val) IN
    IF Len(newCache) > CacheLimit THEN Tail(newCache) ELSE newCache

\* the callback of the cycle after optimizedAnalysis has returned d (NoDescription
\* stands for null, and for the guidance callback's swallowed error):
\* history, setRetryCount(0) in narration, finally, and in the guidance
\* callback scheduleNextGuidanceUpdate() (its closure's currentMode is
\* 'guidance')
FinishCycle(st, c, d) ==
    LET cy == st.cycles[c]
        s1 == IF d.mode = "none" THEN st
              ELSE [st EXCEPT !.descriptionHistory = PrependHistory(@, d)]
        s2 == [s1 EXCEPT !.isLoading = FALSE, !.cycles[c] = Ended(cy)]
    IN IF cy.mode = "narration"
       THEN [s2 EXCEPT !.retryCount = 0]
       ELSE scheduleNextGuidanceUpdate(s2, cy.snap)

\* streamAnalysis(imageDataUrl, mode) is called: a new Analysis Session
OpenSession(st, c, inCatch) ==
    [st EXCEPT !.cycles[c].pc = "streaming",
               !.cycles[c].sess = @ + 1,
               !.cycles[c].fallback = inCatch,
               !.cycles[c].fullText = 0,
               !.cycles[c].hasStartedSpeaking = FALSE,
               !.cycles[c].termSeen = FALSE,
               !.cycles[c].final = 0,
               !.cycles[c].spoke = 0,
               !.cycles[c].spokeAt = 0]

\* the session of cycle c resolves with d: optimizedAnalysis stores it and
\* returns it; the session of the catch block returns it as it is
SessionResolved(st, c, d) ==
    LET cy == st.cycles[c]
        s1 == IF cy.fallback THEN st
              ELSE [st EXCEPT
                      !.imageCache = CachePut(@, CacheKey(cy.hash, cy.mode), d),
                      !.lastImageHash = cy.hash]
    IN FinishCycle(s1, c, d)

\* the catch block of the cycle's callback: narration sets the error and
\* awaits its announcement, guidance only logs
CycleCatch(st, c) ==
    IF st.cycles[c].mode = "narration"
    THEN [st EXCEPT !.error = "generic", !.cycles[c].pc = "catchSpeech"]
    ELSE FinishCycle(st, c, NoDescription)

\* the session of cycle c rejects: the catch of optimizedAnalysis opens
\* another session; a rejection of that one reaches the cycle's catch
SessionRejected(st, c) ==
    IF ~st.cycles[c].fallback THEN OpenSession(st, c, TRUE) ELSE CycleCatch(st, c)

\* optimizedAnalysis from the result of generateImageHash on
optimizedAnalysis(st, c, currentHash, hashed) ==
    LET cy == st.cycles[c]
        cacheKey == CacheKey(currentHash, cy.mode)
        cachedResult == CacheGet(cy.snap.cache, cacheKey)
    IN IF ~hashed THEN OpenSession(st, c, TRUE)
       ELSE IF cy.snap.hash # << >> /\
               areImagesSimilar(currentHash, cy.snap.hash, SimilarThreshold)
       THEN FinishCycle(st, c, NoDescription)
       ELSE IF cachedResult.mode # "none"
       THEN FinishCycle([st EXCEPT !.lastImageHash = currentHash], c, cachedResult)
       ELSE OpenSession([st EXCEPT !.cycles[c].hash = currentHash], c, FALSE)

\* a variant of the test below that ignores the length of the text
SpeaksOnAnyChunk(hasStartedSpeaking, len) == ~hasStartedSpeaking

\* streamAnalysis: "if (!hasStartedSpeaking && fullText.length >= 30)"
SpeaksOnChunk(hasStartedSpeaking, len) == ~hasStartedSpeaking /\ len >= SpeakThreshold

\* streamAnalysis, data.type === 'chunk'
OnChunk(st, c, len) ==
    LET cy == st.cycles[c]
        now == SpeaksOnChunk(cy.hasStartedSpeaking, len)
    IN [st EXCEPT
                 !.cycles[c].fullText = len,
                 !.cycles[c].hasStartedSpeaking = (@ \/ now),
                 !.cycles[c].spoke = IF now THEN @ + 1 ELSE @,
                 !.cycles[c].spokeAt = IF now THEN len ELSE @,
                 !.currentDescription = [text |-> len, mode |-> cy.mode]]

\* streamAnalysis, data.type === 'complete'
OnComplete(st, c, len) ==
    LET cy == st.cycles[c]
        s1 == [st EXCEPT !.cycles[c].termSeen = TRUE, !.cycles[c].final = len]
    IN IF ~cy.hasStartedSpeaking
       THEN \* await speakWithSettings(data.fullText)
            [s1 EXCEPT !.cycles[c].pc = "completeSpeech",
                       !.cycles[c].spoke = @ + 1]
       ELSE SessionResolved(s1, c, [text |-> len, mode |-> cy.mode])

\* streamAnalysis, data.type === 'error': setError; await speakWithSettings
OnError(st, c) ==
    [st EXCEPT !.cycles[c].termSeen = TRUE,
               !.error = "stream",
               !.cycles[c].pc = "errorSpeech"]

\* a speech request that cycle c awaits resolves (ok) or rejects.  Inside
\* readStream a rejection lands in the catch around JSON.parse and the loop
\* reads on.
OnCycleSpeech(st, c, ok) ==
    LET cy == st.cycles[c] IN
    CASE cy.pc = "completeSpeech" ->
           IF ok THEN SessionResolved(st, c, [text |-> cy.final, mode |-> cy.mode])
           ELSE [st EXCEPT !.cycles[c].pc = "streaming"]
      [] cy.pc = "errorSpeech" ->
           IF ok THEN SessionRejected(st, c)
           ELSE [st EXCEPT !.cycles[c].pc = "streaming"]
      [] OTHER ->
           \* catchSpeech: finally { setIsLoading(false) }
           [st EXCEPT !.isLoading = FALSE, !.cycles[c] = Ended(cy)]

----------------------------------------------------------------------------
(* streamAnalysis followed by its resources: the EventSource it creates and  *)
(* the reader it takes on the body of the response.  The sessions of the     *)
(* cycles above are these sessions; their resources are followed here, under  *)
(* SpecStream, for any number of sessions up to MaxSessions.                 *)

SessionIds == 1..MaxSessions

\* source: the EventSource is connecting or open (readyState is not CLOSED);
\* reader: the reader holds a stream that is neither closed nor errored
NoStream ==
    [pc |-> "unused", source |-> FALSE, reader |-> FALSE, fullText |-> 0,
     hasStartedSpeaking |-> FALSE, termSeen |-> FALSE]

SetStreams(v) ==
    /\ streams' = v
    /\ UNCHANGED <<speechVars, pageVars, chains, currentMode, lastImageHash,
                   imageCache, focusTimers, focusTimerRef, countdowns, debounce,
                   guidanceTimers, guidanceTimerRef, cycles, quiesced, loop,
                   route, calc>>

NextSession == Cardinality({s \in SessionIds : streams[s].pc # "unused"}) + 1

\* streamAnalysis(imageDataUrl, mode): new EventSource('/api/describe'), then
\* fetch('/api/describe', {method: 'POST', ...})
StreamOpens ==
    /\ NextSession \in SessionIds
    /\ SetStreams([streams EXCEPT ![NextSession] =
                      [NoStream EXCEPT !.pc = "fetching", !.source = TRUE]])

\* the GET of the EventSource is answered with an error status (the route has
\* no GET handler): the browser fails the connection, readyState is CLOSED
EventSourceRefused(s) ==
    /\ streams[s].source
    /\ SetStreams([streams EXCEPT ![s].source = FALSE])

\* fetch rejects, the response is not ok, or it has no body: reject(error)
RequestFails(s) ==
    /\ streams[s].pc = "fetching"
    /\ SetStreams([streams EXCEPT ![s].pc = "rejected"])

\* the response is ok: body.getReader(); readStream()
BodyArrives(s) ==
    /\ streams[s].pc = "fetching"
    /\ SetStreams([streams EXCEPT ![s].pc = "reading", ![s].reader = TRUE])

\* a chunk event is read
ChunkRead(s, len) ==
    /\ streams[s].pc = "reading"
    /\ ~streams[s].termSeen
    /\ len > streams[s].fullText
    /\ SetStreams([streams EXCEPT
                      ![s].fullText = len,
                      ![s].hasStartedSpeaking =
                          (@ \/ SpeaksOnChunk(streams[s].hasStartedSpeaking, len))])

\* the complete event is read: await speakWithSettings if nothing was spoken,
\* then resolve(finalDescription); return
CompleteRead(s) ==
    /\ streams[s].pc = "reading"
    /\ ~streams[s].termSeen
    /\ SetStreams([streams EXCEPT
                      ![s].termSeen = TRUE,
                      ![s].pc = IF streams[s].hasStartedSpeaking THEN "resolved"
                                ELSE "completeSpeech"])

\* the error event is read: setError; await speakWithSettings; reject; return
ErrorRead(s) ==
    /\ streams[s].pc = "reading"
    /\ ~streams[s].termSeen
    /\ SetStreams([streams EXCEPT ![s].termSeen = TRUE, ![s].pc = "errorSpeech"])

\* the speech the session awaits settles; a rejection lands in the catch
\* around JSON.parse and the loop reads on
SessionSpeechSettles(s, ok) ==
    /\ streams[s].pc \in {"completeSpeech", "errorSpeech"}
    /\ SetStreams([streams EXCEPT
                      ![s].pc = IF ~ok THEN "reading"
                                ELSE IF @ = "completeSpeech" THEN "resolved"
                                ELSE "rejected"])

\* reader.read() returns done: the server has closed the stream; the loop
\* breaks and readStream returns without settling the promise
BodyEnds(s) ==
    /\ streams[s].pc = "reading"
    /\ SetStreams([streams EXCEPT ![s].pc = "hung", ![s].reader = FALSE])

\* reader.read() throws: the stream is errored; reject(error)
BodyFails(s) ==
    /\ streams[s].pc = "reading"
    /\ SetStreams([streams EXCEPT ![s].pc = "rejected", ![s].reader = FALSE])

StreamNext ==
    \/ StreamOpens
    \/ \E s \in SessionIds : EventSourceRefused(s)
    \/ \E s \in SessionIds : RequestFails(s)
    \/ \E s \in SessionIds : BodyArrives(s)
    \/ \E s \in SessionIds, len \in ChunkLens : ChunkRead(s, len)
    \/ \E s \in SessionIds : CompleteRead(s)
    \/ \E s \in SessionIds : ErrorRead(s)
    \/ \E s \in SessionIds, ok \in BOOLEAN : SessionSpeechSettles(s, ok)
    \/ \E s \in SessionIds : BodyEnds(s)
    \/ \E s \in SessionIds : BodyFails(s)

----------------------------------------------------------------------------
(* One run of the guidance effect, with time counted in timer periods.  The   *)
(* callback of the effect keeps the optimizedAnalysis of the render in which  *)
(* the effect ran: snapHash and snapCached are the lastImageHash and the      *)
(* fingerprints cached under guidance in that render, ready its               *)
(* !isLoading && isCameraReady.  periods counts the                           *)
(* 4 s timeouts that have fired since the last update (a result added to the *)
(* history), or since the effect ran; shown tells where the result shown by  *)
(* the last update came from, spoke that the cycle under way, or the last     *)
(* one, has issued a speech request for its result: a session resolves only   *)
(* at its complete event, where it speaks the final text unless a chunk event *)
(* has started the speech.                                                     *)

NoLoop == [pc |-> "off", snapHash |-> << >>, snapCached |-> {}, periods |-> 0,
           fallback |-> FALSE, shown |-> "none", ready |-> FALSE,
           spoke |-> FALSE]

SetLoop(v) ==
    /\ loop' = v
    /\ UNCHANGED <<speechVars, pageVars, chains, currentMode, lastImageHash,
                   imageCache, focusTimers, focusTimerRef, countdowns, debounce,
                   guidanceTimers, guidanceTimerRef, cycles, quiesced, streams,
                   route, calc>>

\* the mode becomes 'guidance': the effect runs, scheduleNextGuidanceUpdate()
EffectRuns(hash, cached, ready) ==
    /\ loop.pc = "off"
    \* a result is cached only together with setLastImageHash
    /\ hash = << >> => cached = {}
    /\ SetLoop([NoLoop EXCEPT !.pc = "timer", !.snapHash = hash,
                              !.snapCached = cached, !.ready = ready])

\* the 4 s timeout fires: when its guard passes, captureImage and
\* generateImageHash; otherwise only the next timeout is scheduled
LoopTimerFires ==
    /\ loop.pc = "timer"
    /\ loop.periods < MaxPeriods
    /\ SetLoop([loop EXCEPT !.pc = IF loop.ready THEN "hashing" ELSE "timer",
                            !.periods = @ + 1, !.spoke = FALSE])

\* optimizedAnalysis(imageDataUrl, 'guidance') with the hash of the frame; a
\* skipped cycle and a cache hit end the callback, which schedules the next
\* timeout
LoopHashDone(currentHash) ==
    /\ loop.pc = "hashing"
    /\ IF loop.snapHash # << >> /\
          areImagesSimilar(currentHash, loop.snapHash, SimilarThreshold)
       THEN SetLoop([loop EXCEPT !.pc = "timer"])
       ELSE IF currentHash \in loop.snapCached
       THEN SetLoop([loop EXCEPT !.pc = "timer", !.periods = 0,
                                 !.shown = "cache"])
       ELSE SetLoop([loop EXCEPT !.pc = "streaming", !.fallback = FALSE])

\* the session of the cycle resolves: the result is added to the history and
\* the next timeout is scheduled
LoopSessionResolves ==
    /\ loop.pc = "streaming"
    /\ SetLoop([loop EXCEPT !.pc = "timer", !.periods = 0, !.fallback = FALSE,
                            !.shown = "session", !.spoke = TRUE])

\* the session rejects: the catch of optimizedAnalysis opens another one; when
\* that one rejects the callback logs the error and schedules the next timeout
LoopSessionRejects ==
    /\ loop.pc = "streaming"
    /\ IF loop.fallback
       THEN SetLoop([loop EXCEPT !.pc = "timer", !.fallback = FALSE])
       ELSE SetLoop([loop EXCEPT !.fallback = TRUE])

\* the mode leaves 'guidance': the cleanup of the effect clears the timeout
EffectCleanup ==
    /\ loop.pc = "timer"
    /\ SetLoop([loop EXCEPT !.pc = "off"])

LoopNext ==
    \/ \E hash \in FrameHashes \cup {<< >>}, cached \in SUBSET FrameHashes,
          ready \in BOOLEAN :
          EffectRuns(hash, cached, ready)
    \/ LoopTimerFires
    \/ \E h \in FrameHashes : LoopHashDone(h)
    \/ LoopSessionResolves
    \/ LoopSessionRejects
    \/ EffectCleanup

----------------------------------------------------------------------------
(* The describe endpoint: start(controller) of the ReadableStream that POST   *)
(* returns for a validated request.  Texts are sequences of characters; out   *)
(* is the sequence of events enqueued, closed tells that controller.close()   *)
(* has run, logged what console.error was last called with.                  *)

\* chunk.text() of the chunks the model's stream yields
ChunkTexts == {<< >>, <<"a">>, <<"b", "c">>}

\* what the message of a thrown error contains
ErrorMessages == {"429", "403", "400", "other"}

NoRequest == [pc |-> "idle", mode |-> "narration", exa |-> FALSE,
              fullText |-> << >>, chunks |-> 0, out |-> << >>,
              closed |-> FALSE, logged |-> "none"]

SetRoute(v) ==
    /\ route' = v
    /\ UNCHANGED <<speechVars, pageVars, chains, currentMode, lastImageHash,
                   imageCache, focusTimers, focusTimerRef, countdowns, debounce,
                   guidanceTimers, guidanceTimerRef, cycles, quiesced, streams,
                   loop, calc>>

InitialData(mode) == [type |-> "start", mode |-> mode]

\* a chunk event that would carry the text of the chunk alone
ChunkDataTextOnly(chunkText, fullText) ==
    [type |-> "chunk", text |-> chunkText, fullText |-> chunkText]

ChunkData(chunkText, fullText) ==
    [type |-> "chunk", text |-> chunkText, fullText |-> fullText]

CompleteData(fullText, hasWebSearch) ==
    [type |-> "complete", fullText |-> fullText, hasWebSearch |-> hasWebSearch]

\* the error event of the outer catch: errorType and retryAfter by the message
ErrorData(msg) ==
    [type |-> "error",
     errorType |-> CASE msg = "429" -> "RATE_LIMIT_EXCEEDED"
                     [] msg = "403" -> "INVALID_API_KEY"
                     [] msg = "400" -> "INVALID_IMAGE"
                     [] OTHER -> "UNKNOWN_ERROR",
     retryAfter |-> IF msg = "429" THEN 60 ELSE 0]

\* controller.enqueue(...) of the events, then controller.close() of finally
CloseWith(r, events) == [r EXCEPT !.pc = "closed", !.out = @ \o events,
                                  !.closed = TRUE]

\* start(controller) begins: the start event, then generateContentStream
RouteStart(mode, exa) ==
    /\ route.pc = "idle"
    /\ SetRoute([route EXCEPT !.pc = "generating", !.mode = mode, !.exa = exa,
                              !.out = <<InitialData(mode)>>])

GenerateResolves ==
    /\ route.pc = "generating"
    /\ SetRoute([route EXCEPT !.pc = "streaming"])

\* generateContentStream rejects, or the iteration of result.stream throws
GenerateThrows(msg) ==
    /\ route.pc \in {"generating", "streaming"}
    /\ SetRoute(CloseWith([route EXCEPT !.logged = "Error in streaming image analysis"],
                          <<ErrorData(msg)>>))

\* one turn of 'for await (const chunk of result.stream)'
ChunkArrives(chunkText) ==
    /\ route.pc = "streaming"
    /\ route.chunks < MaxChunks
    /\ IF chunkText # << >>
       THEN LET fullText == route.fullText \o chunkText
            IN  SetRoute([route EXCEPT !.chunks = @ + 1, !.fullText = fullText,
                                      !.out = Append(@, ChunkData(chunkText, fullText))])
       ELSE SetRoute([route EXCEPT !.chunks = @ + 1])

\* result.stream is exhausted
StreamExhausted ==
    /\ route.pc = "streaming"
    /\ IF route.mode = "narration" /\ route.exa
       THEN SetRoute([route EXCEPT !.pc = "searching",
                                  !.out = Append(@, [type |-> "web_search_start"])])
       ELSE SetRoute(CloseWith(route, <<CompleteData(route.fullText, FALSE)>>))

\* searchImageTopics resolves: found tells that it gave at least one result,
\* webInfo that the results carry a summary or a text
SearchResolves(found, webInfo) ==
    /\ route.pc = "searching"
    /\ IF found
       THEN SetRoute(CloseWith(route,
                <<[type |-> "web_search_results"],
                  IF webInfo
                  THEN CompleteData(route.fullText \o <<"w">>, TRUE)
                  ELSE CompleteData(route.fullText, FALSE)>>))
       ELSE SetRoute(CloseWith(route, <<CompleteData(route.fullText, FALSE)>>))

\* a web search branch whose failure would reach the outer catch
SearchThrowsToError ==
    /\ route.pc = "searching"
    /\ SetRoute(CloseWith([route EXCEPT !.logged = "Web search error"],
                          <<ErrorData("other")>>))

\* the web search branch throws: catch (searchError)
SearchThrows ==
    /\ route.pc = "searching"
    /\ SetRoute(CloseWith([route EXCEPT !.logged = "Web search error"],
                          <<CompleteData(route.fullText, FALSE)>>))

RouteNext ==
    \/ \E mode \in {"narration", "guidance"}, exa \in BOOLEAN : RouteStart(mode, exa)
    \/ GenerateResolves
    \/ \E msg \in ErrorMessages : GenerateThrows(msg)
    \/ \E t \in ChunkTexts : ChunkArrives(t)
    \/ StreamExhausted
    \/ \E found, webInfo \in BOOLEAN : SearchResolves(found, webInfo)
    \/ SearchThrows

----------------------------------------------------------------------------
(* Two-mode page: events *)

NextCycle == Cardinality({c \in CycleIds : cycles[c].pc # "unused"}) + 1

\* a tap on the other half of the screen
SwitchMode(newMode) ==
    /\ newMode # currentMode
    /\ SetCtl(switchMode(CtlState, newMode))

\* Enter / a short tap in narration mode: startFocusTimer()
StartFocusTimer ==
    /\ ~(currentMode # "narration" \/ isLoading)
    /\ Len(focusTimers) < MaxFocusTimers
    /\ countdowns < MaxFocusTimers
    /\ SetCtl(startFocusTimer(CtlState))

\* the oldest focus timeout fires after 2 s: its closure's currentMode is
\* 'narration', so it calls the handleNarrationCapture of its render
FocusTimerFires ==
    /\ focusTimers # << >>
    /\ SetCtl(handleNarrationCapture(
                [CtlState EXCEPT !.focusTimers = Tail(@),
                                 !.focusTimerRef = RefAfterRemoval(@, 1)],
                Head(focusTimers)))

\* a countdown interval reaches 0 and clears itself
CountdownEnds ==
    /\ countdowns > 0
    /\ SetCtl([CtlState EXCEPT !.countdowns = @ - 1])

\* the debounce timeout fires after 500 ms: a narration cycle starts
DebounceFires ==
    /\ debounce # << >>
    /\ NextCycle \in CycleIds
    /\ SetCtl([CtlState EXCEPT
                 !.debounce = << >>,
                 !.isLoading = TRUE,
                 !.error = "none",
                 !.cycles[NextCycle] =
                     [NoCycle EXCEPT !.pc = "hashing", !.mode = "narration",
                                     !.snap = debounce[1].snap,
                                     !.trigBusy = debounce[1].busy]])

\* the guard of the guidance callback, on the values its closure holds
\* (its currentMode is 'guidance')
GuidanceGuardPasses(snap) == ~snap.ld /\ snap.cam

\* the oldest guidance timeout fires after 4 s
GuidanceTimerFires ==
    /\ guidanceTimers # << >>
    /\ LET snap == Head(guidanceTimers)
           s1 == [CtlState EXCEPT !.guidanceTimers = Tail(@),
                                  !.guidanceTimerRef = RefAfterRemoval(@, 1)]
       IN IF GuidanceGuardPasses(snap)
          THEN /\ NextCycle \in CycleIds
               /\ SetCtl([s1 EXCEPT
                            !.isLoading = TRUE,
                            !.cycles[NextCycle] =
                                [NoCycle EXCEPT !.pc = "hashing",
                                                !.mode = "guidance",
                                                !.snap = snap,
                                                !.afterQuiesce = quiesced]])
          ELSE SetCtl(scheduleNextGuidanceUpdate(s1, snap))

\* captureImage() of cycle c throws (the canvas or its context is missing)
CaptureThrows(c) ==
    /\ cycles[c].pc = "hashing"
    /\ SetCtl(CycleCatch(CtlState, c))

\* captureImage and generateImageHash of cycle c have settled
HashDone(c, h, hashed) ==
    /\ cycles[c].pc = "hashing"
    /\ SetCtl(optimizedAnalysis(CtlState, c, h, hashed))

\* the session of cycle c reads a chunk event; fullText is cumulative
StreamChunk(c, len) ==
    /\ cycles[c].pc = "streaming"
    /\ ~cycles[c].termSeen
    /\ len > cycles[c].fullText
    /\ SetCtl(OnChunk(CtlState, c, len))

StreamComplete(c, len) ==
    /\ cycles[c].pc = "streaming"
    /\ ~cycles[c].termSeen
    /\ len >= cycles[c].fullText
    /\ SetCtl(OnComplete(CtlState, c, len))

StreamError(c) ==
    /\ cycles[c].pc = "streaming"
    /\ ~cycles[c].termSeen
    /\ SetCtl(OnError(CtlState, c))

\* reader.read() returns done: the loop breaks and readStream returns
StreamEnds(c) ==
    /\ cycles[c].pc = "streaming"
    /\ SetCtl([CtlState EXCEPT !.cycles[c] = Hung(@)])

\* fetch rejects, the response is not ok or has no body, or read() throws
StreamFails(c) ==
    /\ cycles[c].pc = "streaming"
    /\ SetCtl(SessionRejected(CtlState, c))

CycleSpeechSettles(c, ok) ==
    /\ cycles[c].pc \in {"completeSpeech", "errorSpeech", "catchSpeech"}
    /\ SetCtl(OnCycleSpeech(CtlState, c, ok))

CtlNext ==
    \/ CameraReady
    \/ \E m \in {"narration", "guidance"} : SwitchMode(m)
    \/ StartFocusTimer
    \/ FocusTimerFires
    \/ CountdownEnds
    \/ DebounceFires
    \/ GuidanceTimerFires
    \/ \E c \in CycleIds : CaptureThrows(c)
    \/ \E c \in CycleIds, h \in FrameHashes, ok \in BOOLEAN : HashDone(c, h, ok)
    \/ \E c \in CycleIds, len \in ChunkLens : StreamChunk(c, len)
    \/ \E c \in CycleIds, len \in FinalLens : StreamComplete(c, len)
    \/ \E c \in CycleIds : StreamError(c)
    \/ \E c \in CycleIds : StreamEnds(c)
    \/ \E c \in CycleIds : StreamFails(c)
    \/ \E c \in CycleIds, ok \in BOOLEAN : CycleSpeechSettles(c, ok)

CtlInit ==
    /\ currentMode = "narration"
    /\ lastImageHash = << >>
    /\ imageCache = << >>
    /\ focusTimers = << >>
    /\ focusTimerRef = 0
    /\ countdowns = 0
    /\ debounce = << >>
    /\ guidanceTimers = << >>
    /\ guidanceTimerRef = 0
    /\ cycles = [c \in CycleIds |-> NoCycle]
    /\ quiesced = FALSE
    /\ streams = [s \in SessionIds |-> NoStream]
    /\ loop = NoLoop
    /\ route = NoRequest

\* the state after the module is loaded and CameraView is mounted, on a host
\* with on-device speech synthesis
Init ==
    /\ SpeechInit(TRUE)
    /\ PageInit
    /\ chains = [ch \in TapIds |-> NoChain]
    /\ CtlInit
    /\ calc = NoCalc

\* the same on any host: window.speechSynthesis may be missing
InitAnyHost ==
    /\ \E h \in BOOLEAN : SpeechInit(h)
    /\ PageInit
    /\ chains = [ch \in TapIds |-> NoChain]
    /\ CtlInit
    /\ calc = NoCalc

\* the page at rest and one call of a pure helper about to be made
InitPure ==
    /\ SpeechInit(TRUE)
    /\ PageInit
    /\ chains = [ch \in TapIds |-> NoChain]
    /\ CtlInit
    /\ calc \in HashInputs \cup SizeInputs

\* the speech coordinator under arbitrary callers
SpecSpeech == InitAnyHost /\ [][SpeechNext]_vars

\* the tap-to-describe page
SpecCapture == Init /\ [][CaptureNext]_vars

\* the two-mode page
Spec == Init /\ [][CtlNext]_vars

\* the Analysis Sessions and their stream resources
SpecStream == Init /\ [][StreamNext]_vars

\* one run of the guidance effect
SpecGuidance == Init /\ [][LoopNext]_vars

\* one request to the describe endpoint
SpecRoute == Init /\ [][RouteNext]_vars

\* the pure helpers on every input within the bounds
SpecPure == InitPure /\ [][PureNext]_vars

----------------------------------------------------------------------------
(* The analysis cache on its own: optimizedAnalysis's lookups and stores *)

Modes == {"narration", "guidance"}

OtherMode(mode) == IF mode = "narration" THEN "guidance" ELSE "narration"

\* the n-th image fingerprint: n ones, then zeros
HashAt(n) == [j \in 1..8 |-> IF j <= n THEN 1 ELSE 0]

\* the keys in the order they are first stored: each fingerprint in narration
\* mode, then in guidance mode
KeyHashAt(i) == HashAt((i + 1) \div 2)
KeyModeAt(i) == IF i % 2 = 1 THEN "narration" ELSE "guidance"
CacheKeyAt(i) == CacheKey(KeyHashAt(i), KeyModeAt(i))

\* the keys stored so far
KeysStored(cache) ==
    {i \in 1..MaxKeys : \E j \in 1..Len(cache) : cache[j].key = CacheKeyAt(i)}

\* keys a store may use: one the Map holds, or the next one it has never
\* held
NextKeys(cache) ==
    LET held == KeysStored(cache)
        top == IF held = {} THEN 0
               ELSE CHOOSE i \in held : \A j \in held : j <= i
    IN  held \cup ({top + 1} \cap 1..MaxKeys)

\* optimizedAnalysis after streamAnalysis has resolved with a description of
\* length len for key i: the updater of setImageCache
CacheStore(i, len) ==
    /\ i \in NextKeys(imageCache)
    /\ imageCache' = CachePut(imageCache, CacheKeyAt(i),
                              [text |-> len, mode |-> KeyModeAt(i)])
    /\ UNCHANGED <<speechVars, pageVars, chains, currentMode, lastImageHash,
                   focusTimers, focusTimerRef, countdowns, debounce,
                   guidanceTimers, guidanceTimerRef, cycles, quiesced, streams,
                   loop, route, calc>>

CacheNext == \E i \in 1..MaxKeys, len \in ChunkLens : CacheStore(i, len)

\* the cache under arbitrary stores
SpecCache == Init /\ [][CacheNext]_vars

----------------------------------------------------------------------------
(* The description history on its own: the results of the cycles of both
   modes, in the order their callbacks receive them *)

\* results received so far; nth is history, the place of a result in that order
ResultsSoFar == IF descriptionHistory = << >> THEN 0 ELSE Head(descriptionHistory).nth

\* a cycle of the given mode has received newDescription from
\* optimizedAnalysis: "if (newDescription) setDescriptionHistory(...)"
ResultArrives(mode, len) ==
    /\ ResultsSoFar < MaxResults
    /\ descriptionHistory' =
          PrependHistory(descriptionHistory,
                         [text |-> len, mode |-> mode, nth |-> ResultsSoFar + 1])
    /\ UNCHANGED <<speechVars, isLoading, isCameraReady, retryCount, error,
                   currentDescription, chains, ctlVars>>

HistoryNext == \E mode \in Modes, len \in FinalLens : ResultArrives(mode, len)

\* the history under arbitrary results
SpecHistory == Init /\ [][HistoryNext]_vars

----------------------------------------------------------------------------
(* Claims about the description history *)

\* C16: whatever the modes of the cycles, descriptionHistory holds at most 5
\* entries, newest first: the head is the last result received, each entry is
\* followed by the result received just before it, so that the 6th result
\* drops the oldest one and nothing else.
C16_HistoryNewestFirstAtMostFive ==
    /\ Len(descriptionHistory) <= HistoryKeep + 1
    /\ Len(descriptionHistory) >= (IF ResultsSoFar < HistoryKeep + 1
                                   THEN ResultsSoFar ELSE HistoryKeep + 1)
    /\ \A j \in 1..Len(descriptionHistory) :
          descriptionHistory[j].nth = ResultsSoFar - (j - 1)

\* six results of both modes have arrived: the first one is gone
C16_SixthResultArrived ==
    /\ ResultsSoFar = HistoryKeep + 2
    /\ Len(descriptionHistory) = HistoryKeep + 1
    /\ \E j \in 1..Len(descriptionHistory) : descriptionHistory[j].mode = "narration"
    /\ \E j \in 1..Len(descriptionHistory) : descriptionHistory[j].mode = "guidance"

----------------------------------------------------------------------------
(* Claims about the analysis cache *)

\* C14: a store under (fingerprint, mode) makes the lookup with the same
\* fingerprint and mode return the stored result, and gives the lookup with the
\* same fingerprint and the other mode nothing: that lookup still returns
\* nothing if nothing was stored under the other mode, and never a result of
\* the mode just stored.
C14_StoreThenLookup ==
    \A i \in NextKeys(imageCache), len \in ChunkLens :
        LET h == KeyHashAt(i)
            m == KeyModeAt(i)
            other == CacheKey(h, OtherMode(m))
            stored == CachePut(imageCache, CacheKey(h, m), [text |-> len, mode |-> m])
        IN  /\ CacheGet(stored, CacheKey(h, m)) = [text |-> len, mode |-> m]
            /\ CacheGet(imageCache, other) = NoDescription =>
                   CacheGet(stored, other) = NoDescription
            /\ CacheGet(stored, other).mode # m

\* a fingerprint stored in narration mode only: its guidance lookup misses
C14_StoredInOneMode ==
    \E n \in 1..8 :
        /\ CacheGet(imageCache, CacheKey(HashAt(n), "narration")) # NoDescription
        /\ CacheGet(imageCache, CacheKey(HashAt(n), "guidance")) = NoDescription

\* C15: the cache never holds more than 10 entries after a store; a store of
\* a key the full cache does not hold evicts the earliest-inserted key, which
\* is then not retrievable, while the other nine and the new key are.
C15_BoundedFifoCache ==
    /\ Len(imageCache) <= CacheLimit
    /\ \A i \in NextKeys(imageCache), len \in ChunkLens :
          LET stored == CachePut(imageCache, CacheKeyAt(i),
                                 [text |-> len, mode |-> KeyModeAt(i)])
          IN  /\ Len(stored) <= CacheLimit
              /\ (Len(imageCache) = CacheLimit /\ i \notin KeysStored(imageCache)) =>
                    /\ CacheGet(stored, imageCache[1].key) = NoDescription
                    /\ \A j \in 2..CacheLimit :
                          CacheGet(stored, imageCache[j].key) = imageCache[j].val
                    /\ CacheGet(stored, CacheKeyAt(i)).text = len

\* the 11th key has been stored and the first one is gone
C15_EleventhKeyStored ==
    /\ Len(imageCache) = CacheLimit
    /\ CacheGet(imageCache, CacheKeyAt(1)) = NoDescription
    /\ CacheGet(imageCache, CacheKeyAt(CacheLimit + 1)) # NoDescription

----------------------------------------------------------------------------
(* Claims about the speech coordinator *)

\* C1: under every interleaving of speak() calls at most one playback is
\* active at any instant, counting the remote audio elements and the
\* on-device utterance.
C1_AtMostOnePlayback == Cardinality(ActivePlaybacks) <= 1

\* C10: cancelAllSpeech() stops the active playback, sets isSpeaking to false
\* and empties the listener registry without invoking a pending listener.
C10_CancelAllFiresNoListener ==
    [][CancelAllSpeech =>
          /\ ActivePlaybacks' = {}
          /\ ~isSpeaking'
          /\ speechCallbacks' = << >>
          /\ cbFired' = cbFired]_vars

\* C11: a listener registered during a speak() call is invoked at most once,
\* and not while that call is still fetching or playing; a listener that has
\* fired is no longer in the registry.
C11_ListenerFiresAfterItsCall ==
    \A l \in Listeners :
        /\ cbFired[l] <= 1
        /\ (cbFired[l] = 1 /\ cbCall[l] # 0) =>
              calls[cbCall[l]].pc \notin InProgressPcs
        /\ cbFired[l] = 1 =>
              \A i \in 1..Len(speechCallbacks) : speechCallbacks[i] # l

\* C12: getIsSpeaking() is true whenever a playback is active.
C12_SpeakingWhilePlaybackActive == ActivePlaybacks # {} => isSpeaking

\* C13: once speak(B) has been issued after speak(A), A's playback is never
\* active: the only playback that can be active is that of the newest call.
C13_OnlyNewestCallPlays ==
    \A a \in CallIds, b \in CallIds :
        (a < b /\ calls[b].pc # "unused") => a \notin ActivePlaybacks

----------------------------------------------------------------------------
(* Claims about the tap-to-describe page *)

\* C9: for one user-triggered capture whose every attempt is answered with
\* RATE_LIMIT_EXCEEDED, at most 2 automatic retries are scheduled.
C9_AtMostTwoAutoRetries == \A ch \in TapIds : chains[ch].retries <= RetryCap

\* C20: when a capture cycle ends in success (its description was received,
\* stored and spoken), retryCount is 0; the description a cycle receives
\* becomes the head of the history; and when the cycle that succeeds is an
\* automatic retry of the only capture made, the history holds the retried
\* result alone.
C20_RetryCountZeroAfterSuccess ==
    [][\A ch \in TapIds :
          /\ (chains[ch].pc = "fetching" /\ chains'[ch].pc = "descSpeech") =>
                /\ descriptionHistory' # << >>
                /\ Head(descriptionHistory') = currentDescription'
          /\ (chains[ch].pc = "descSpeech" /\ chains'[ch].pc = "done") =>
                /\ retryCount' = 0
                /\ (/\ chains[ch].retries >= 1
                    /\ \A o \in TapIds \ {ch} : chains[o].pc = "unused")
                   => descriptionHistory' = <<currentDescription'>>]_vars

\* the only capture made was answered with a rate limit and its automatic
\* retry has ended in success
C20_RetrySucceeded ==
    \E ch \in TapIds :
        /\ chains[ch].pc = "done"
        /\ chains[ch].retries >= 1
        /\ \A o \in TapIds \ {ch} : chains[o].pc = "unused"
        /\ descriptionHistory # << >>
        /\ error = "none"
        /\ retryCount = 0
        /\ ~isLoading


----------------------------------------------------------------------------
(* Capture cycles and mode switches (two-mode page) *)

InFlight == {c \in CycleIds : cycles[c].pc \in InFlightPcs}

\* C2: a narration capture triggered while the cycle of an earlier trigger is
\* in flight opens no Analysis Session: the second trigger is ignored.
C2_BusyTriggerOpensNoSession ==
    \A c \in CycleIds : cycles[c].trigBusy => cycles[c].sess = 0

\* C3: at every instant at most one capture/analyze pipeline is in flight,
\* whichever timer or tap started it.
C3_AtMostOnePipeline == Cardinality(InFlight) <= 1

\* C4: after switchMode('narration') was called with a guidance timer pending,
\* no guidance cycle starts until guidance mode is entered again.
C4_NoGuidanceCycleAfterSwitch ==
    \A c \in CycleIds : ~cycles[c].afterQuiesce

\* C5: a guidance cycle that was in flight when the mode was switched to
\* narration adds no history entry, issues no speech request and schedules no
\* guidance timer while the mode is narration.
C5_LateResultDiscarded ==
    [][\A c \in CycleIds :
          (/\ cycles[c].superseded
           /\ currentMode = "narration"
           /\ cycles'[c] # cycles[c])
          => /\ descriptionHistory' = descriptionHistory
             /\ guidanceTimers' = guidanceTimers
             /\ cycles'[c].spoke <= cycles[c].spoke]_vars

\* C6: a call of switchMode leaves no timer of the outgoing mode pending:
\* leaving narration, no focus timeout, no countdown interval and no debounce
\* timeout; leaving guidance, no guidance timeout.
C6_SwitchCancelsAllTimers ==
    [][currentMode' # currentMode =>
          /\ currentMode = "narration" =>
                 (focusTimers' = << >> /\ countdowns' = 0 /\ debounce' = << >>)
          /\ currentMode = "guidance" => guidanceTimers' = << >>]_vars

\* C7: every streamAnalysis call settles: no session is left with a promise
\* that can neither resolve nor reject.
C7_EverySessionSettles == \A c \in CycleIds : cycles[c].pc # "hung"

C17_NarrationResultStoredAndSpoken ==
    [][\A c \in CycleIds :
          LET cy == cycles[c]
              key == CacheKey(cy.hash, "narration")
              Delivered(T) ==
                  /\ CacheGet(imageCache', key) = [text |-> T, mode |-> "narration"]
                  /\ descriptionHistory' # << >>
                  /\ Head(descriptionHistory') = [text |-> T, mode |-> "narration"]
          IN  (cy.mode = "narration" /\ ~cy.fallback /\ cycles'[c] # cy) =>
                /\ cy.pc = "completeSpeech" => (Delivered(cy.final) /\ cy.spoke = 1)
                /\ (cy.pc = "streaming" /\ cycles'[c].pc = "done") =>
                      \E T \in FinalLens :
                          Delivered(T) /\ cy.spoke = 1 /\ cy.spokeAt = T]_vars


\* C18: after a narration capture was analysed successfully (its fingerprint is
\* the last one stored and its result is the head of the history), the next
\* narration capture, when its fingerprint is at Hamming distance 0 from that
\* one, opens no Analysis Session and adds no history entry.
C18_IdenticalFrameSkipped ==
    [][\A c \in CycleIds :
          (/\ cycles[c].mode = "narration"
           /\ cycles[c].pc = "hashing"
           /\ lastImageHash # << >>
           /\ descriptionHistory # << >>
           /\ Head(descriptionHistory).mode = "narration"
           /\ cycles'[c] # cycles[c])
          => /\ (cycles'[c].pc = "streaming" /\ ~cycles'[c].fallback) =>
                    calculateHashDistance(cycles'[c].hash, lastImageHash) # 0
             /\ (cycles'[c].pc = "done" /\ descriptionHistory' # descriptionHistory) =>
                    calculateHashDistance(lastImageHash', lastImageHash) # 0]_vars


\* C19: in guidance mode, once the guidance updates have stalled (the session
\* of a guidance cycle never settles, so that the last successful update grows
\* older than the stall threshold of 12 s) with no retry made, which is below
\* the ceiling of 3, a further guidance cycle is initiated: one is in flight,
\* or a timer that starts one is pending.
C19_StalledGuidanceRestarted ==
    (/\ currentMode = "guidance"
     /\ retryCount = 0
     /\ \E c \in CycleIds : cycles[c].mode = "guidance" /\ cycles[c].pc = "hung")
    => \/ guidanceTimers # << >>
       \/ \E c \in CycleIds :
             cycles[c].mode = "guidance" /\ cycles[c].pc \in InFlightPcs


\* C21: a narration trigger opens at most one Analysis Session: when that
\* session fails, no further session is opened for the trigger; the cycle sets
\* the display error and announces it, and then releases the busy flag.
C21_FailedNarrationOpensNoSession ==
    \A c \in CycleIds :
        cycles[c].mode = "narration" =>
            /\ cycles[c].sess <= 1
            /\ cycles[c].pc = "catchSpeech" => error # "none"


\* C22: a guidance cycle whose analysis fails issues no speech request for the
\* error: no guidance cycle is ever waiting for an error announcement.
C22_GuidanceErrorNotSpoken ==
    \A c \in CycleIds :
        cycles[c].mode = "guidance" => cycles[c].pc \notin {"errorSpeech", "catchSpeech"}


\* C23: a guidance timer tick starts a capture only when no guidance cycle is
\* in flight and no cycle is waiting for a speech utterance to end; otherwise
\* the tick is skipped.
C23_BusyGuidanceTickSkipped ==
    [][\A c \in CycleIds :
          (/\ cycles[c].pc = "unused"
           /\ cycles'[c].pc = "hashing"
           /\ cycles'[c].mode = "guidance")
          => \A o \in CycleIds :
                /\ ~(cycles[o].mode = "guidance" /\ cycles[o].pc \in InFlightPcs)
                /\ cycles[o].pc \notin {"completeSpeech", "errorSpeech", "catchSpeech"}]_vars


\* C24: a speak() call made with forceWebTTS, or with a text shorter than 10
\* characters, sends no request to the remote backend and goes straight to the
\* on-device synthesizer; every other call requests the remote backend first,
\* and only such a call ever plays remote audio.
C24_RemoteSkippedWhenForcedOrShort ==
    [][\A c \in CallIds :
          LET direct == calls'[c].force \/ calls'[c].len < MinGeminiLen IN
          /\ (calls[c].pc = "unused" /\ calls'[c].pc # "unused") =>
                /\ calls'[c].pc = "fetching" <=> ~direct
                /\ (direct /\ speechSupported) => (calls'[c].pc = "web" /\ synth' = c)
          /\ calls'[c].pc \in {"fetching", "audio"} => ~direct]_vars

\* a forced call and a short call are with the on-device synthesizer or past
\* it, and a third call waits for the remote backend
C24_DirectAndRemoteCalls ==
    \E a \in CallIds, b \in CallIds, c \in CallIds :
        /\ calls[a].force /\ calls[a].len >= MinGeminiLen /\ calls[a].pc # "unused"
        /\ ~calls[b].force /\ calls[b].len < MinGeminiLen /\ calls[b].pc # "unused"
        /\ ~calls[c].force /\ calls[c].len >= MinGeminiLen /\ calls[c].pc = "fetching"


\* C25: when the remote attempt of a speak() call fails (the request fails, the
\* response is not OK or not audio, or the audio does not play), the call runs
\* the on-device synthesizer with its text, and is rejected at once only on a
\* host without on-device synthesis; from then on the call settles only with
\* its utterance: resolved when it ends, rejected when it errors.
C25_RemoteFailureFallsBack ==
    [][\A c \in CallIds :
          /\ (/\ calls[c].pc \in {"fetching", "audio"}
              /\ calls'[c].pc \notin {"fetching", "audio", "silenced", "resolved"})
             => /\ calls'[c].len = calls[c].len
                /\ IF speechSupported
                   THEN calls'[c].pc = "web" /\ synth' = c
                   ELSE calls'[c].pc = "rejected"
          /\ (calls[c].pc = "fetching" /\ calls'[c].pc # "fetching") =>
                calls'[c].pc \in {"audio", "web", "rejected"}
          /\ (calls[c].pc = "web" /\ calls'[c].pc \in {"resolved", "rejected"}) =>
                (synth = c /\ synth' = 0)]_vars

\* a call that asked the remote backend is being spoken on the device
C25_FallbackSpeaking ==
    \E c \in CallIds :
        /\ ~calls[c].force
        /\ calls[c].len >= MinGeminiLen
        /\ calls[c].pc = "web"
        /\ synth = c


\* C26: when an Analysis Session has ended, resolved or rejected, its
\* EventSource is closed and the reader of its response body holds no open
\* stream: the open resources are those of the sessions still running.
C26_StreamResourcesReleased ==
    \A s \in SessionIds :
        streams[s].pc \in {"resolved", "rejected"} =>
            (~streams[s].source /\ ~streams[s].reader)


\* C27: when the fingerprint of the captured frame is in the cache under the
\* mode of the cycle, the cycle opens no Analysis Session and ends with the
\* cached result, which becomes the head of the history, in narration and in
\* guidance mode alike.
C27_CacheHitOpensNoSession ==
    [][\A c \in CycleIds :
          /\ (/\ cycles[c].pc = "hashing"
              /\ cycles'[c].pc = "streaming"
              /\ ~cycles'[c].fallback)
             => CacheGet(imageCache, CacheKey(cycles'[c].hash, cycles[c].mode))
                   = NoDescription
          /\ \A h \in FrameHashes :
                (/\ CacheGet(imageCache, CacheKey(h, cycles[c].mode)) # NoDescription
                 /\ HashDone(c, h, TRUE))
                => /\ cycles'[c].pc = "done"
                   /\ descriptionHistory' # << >>
                   /\ Head(descriptionHistory') =
                         CacheGet(imageCache, CacheKey(h, cycles[c].mode))]_vars


\* C28: a guidance cycle is not skipped for similarity once the minimum
\* refresh interval of 15 s has elapsed since the last guidance update: a cycle
\* that starts at least 15 s after it and ends without a session being opened
\* has delivered a result.
C28_SimilarFrameRefreshed ==
    [][(/\ loop.pc = "hashing"
        /\ loop.periods * GuidancePeriodMs >= 15000
        /\ loop'.pc = "timer")
       => loop'.periods = 0]_vars



\* C29: a guidance cycle never changes the fingerprint that narration cycles are
\* compared against: no step of a guidance cycle changes the stored fingerprint
\* that optimizedAnalysis reads for a narration frame.
C29_GuidanceKeepsNarrationFingerprint ==
    [][\A c \in CycleIds :
          (cycles[c].mode = "guidance" /\ cycles'[c] # cycles[c])
          => lastImageHash' = lastImageHash]_vars



\* the concatenation of the texts of the chunk events among the first i events
RECURSIVE ChunkConcat(_, _)
ChunkConcat(out, i) ==
    IF i = 0 THEN << >>
    ELSE IF out[i].type = "chunk" THEN ChunkConcat(out, i - 1) \o out[i].text
    ELSE ChunkConcat(out, i - 1)

IsTerminalEvent(e) == e.type \in {"complete", "error"}

IsWebSearchEvent(e) == e.type \in {"web_search_start", "web_search_results"}

\* C30: the events of a response stream are one start event, then chunk events
\* whose fullText is the concatenation of the chunk texts sent so far, then
\* possibly web-search events, then one terminal event (complete or error);
\* the terminal event is the last event and the stream is closed exactly when
\* it has been sent.
C30_ResponseStreamShape ==
    LET out == route.out
        n == Len(out)
    IN  /\ route.pc # "idle" => (n >= 1 /\ out[1].type = "start")
        /\ \A i \in 2..n : out[i].type # "start"
        /\ \A i \in 1..n :
              out[i].type = "chunk" =>
                  /\ out[i].text # << >>
                  /\ out[i].fullText = ChunkConcat(out, i)
                  /\ \A j \in 1..(i - 1) : out[j].type \in {"start", "chunk"}
        /\ \A i \in 1..n :
              IsWebSearchEvent(out[i]) =>
                  \A j \in (i + 1)..n : IsWebSearchEvent(out[j]) \/ IsTerminalEvent(out[j])
        /\ \A i \in 1..n : IsTerminalEvent(out[i]) => i = n
        /\ route.closed <=> (n >= 1 /\ IsTerminalEvent(out[n]))
        /\ route.closed <=> route.pc = "closed"

\* a closed stream with two chunks, both web-search events and an enhanced
\* complete event
C30_TwoChunksSearchComplete ==
    LET out == route.out
    IN  /\ route.closed
        /\ Len(out) = 6
        /\ out[2].type = "chunk" /\ out[3].type = "chunk"
        /\ out[3].fullText = out[2].text \o out[3].text
        /\ out[4].type = "web_search_start"
        /\ out[5].type = "web_search_results"
        /\ out[6].type = "complete" /\ out[6].hasWebSearch



\* C31: the step that ends the web search of a narration analysis always
\* enqueues a complete event as the last event, never an error event; when the
\* search threw or gave nothing usable, the complete event carries the
\* unenriched full text.
C31_SearchFailureStillCompletes ==
    [][(route.pc = "searching" /\ route'.pc = "closed")
       => LET last == route'.out[Len(route'.out)]
          IN  /\ last.type = "complete"
              /\ \A i \in 1..Len(route'.out) : route'.out[i].type # "error"
              /\ (route'.logged = "Web search error" \/ ~last.hasWebSearch)
                    => (last.fullText = route.fullText /\ ~last.hasWebSearch)]_vars

\* a stream closed after its web search threw, with chunks sent before
C31_SearchThrewAfterChunks ==
    /\ route.closed
    /\ route.logged = "Web search error"
    /\ route.fullText # << >>
    /\ route.out[Len(route.out)].type = "complete"



\* C32: for hashes of equal length calculateHashDistance is the number of
\* positions at which they differ and areImagesSimilar holds exactly when that
\* number is at most the threshold; for hashes of different lengths the
\* distance is Infinity and they are not similar.
C32_HammingDistanceAndThreshold ==
    (calc.fn = "areImagesSimilar" /\ calc.pc = "done") =>
        LET a == calc.hash1
            b == calc.hash2
            differing == Cardinality({i \in 1..Len(a) : a[i] # b[i]})
        IN  IF Len(a) = Len(b)
            THEN /\ calc.distance = differing
                 /\ calc.similar <=> (differing <= calc.threshold)
            ELSE /\ calc.distance = Infinity
                 /\ ~calc.similar

\* two hashes of length 3 that differ in 2 positions, compared with threshold 2
C32_DistanceEqualsThreshold ==
    /\ calc.fn = "areImagesSimilar" /\ calc.pc = "done"
    /\ calc.hash1 = <<0, 1, 1>> /\ calc.hash2 = <<1, 1, 0>>
    /\ calc.threshold = 2
    /\ calc.distance = 2 /\ calc.similar

\* C33: the target size computed by captureImage is at most 400 wide and at
\* most 300 high, keeps the aspect ratio of the video up to the truncation to
\* whole pixels, and equals the video size when that is within 400 by 300.
C33_TargetSizeWithinBounds ==
    (calc.fn = "captureImage" /\ calc.pc = "done") =>
        LET v == calc.video
            t == calc.target
            skew == t.width * v.height - t.height * v.width
        IN  /\ t.width <= maxWidth
            /\ t.height <= maxHeight
            /\ skew <= v.width /\ 0 - skew <= v.height
            /\ (v.width <= maxWidth /\ v.height <= maxHeight) => t = v



\* C34: no capture cycle that has set isLoading to true is left unable to set
\* it back to false: no cycle's session promise is abandoned unsettled, with
\* the finally of its callback never to run.
C34_NoCycleLeftLoading ==
    \A c \in CycleIds : cycles[c].pc # "hung"

\* C35: no speak() call is left unable to settle: no call has lost its
\* playback with neither its promise resolved nor rejected and no event of its
\* playback still to come.
C35_NoCallLeftUnsettled ==
    \A c \in CallIds : calls[c].pc # "silenced"



\* C36: a cycle that has prepended its result to the history has issued a
\* speech request for it, whether the result came from a new analysis or from
\* the cache.
C36_HistoryEntrySpoken ==
    (loop.pc = "timer" /\ loop.periods = 0 /\ loop.shown # "none") => loop.spoke



\* C37: when a cycle adds an entry to the history and leaves no cycle in
\* flight, currentDescription has the text of the head of the history.
C37_DisplayedTextIsHistoryHead ==
    [][(/\ descriptionHistory' # descriptionHistory
        /\ \A c \in CycleIds : cycles'[c].pc \notin InFlightPcs)
       => currentDescription'.text = Head(descriptionHistory').text]_vars



\* C38: at most one debounce timer is pending; a handleNarrationCapture call
\* made while one is pending replaces it and starts no capture, and the timer
\* that fires starts exactly one capture cycle and leaves none pending.
C38_BurstStartsOneCapture ==
    /\ [](Len(debounce) <= 1)
    /\ [][/\ (debounce # << >> /\ debounce' # << >> /\ debounce' # debounce)
             => (cycles' = cycles /\ debounce'[1].replaced)
          /\ (debounce # << >> /\ debounce' = << >>)
             => /\ Cardinality({c \in CycleIds : cycles'[c] # cycles[c]}) = 1
                /\ \E c \in CycleIds : /\ cycles[c].pc = "unused"
                                       /\ cycles'[c].pc = "hashing"
                                       /\ cycles'[c].mode = "narration"]_vars

\* the pending debounce timer is that of a call which cleared an earlier one,
\* with no cycle started yet
C38_SecondCallOfBurstPending ==
    /\ debounce # << >>
    /\ debounce[1].replaced
    /\ \A c \in CycleIds : cycles[c].pc = "unused"



\* C39: while the mode is guidance, the camera is ready (and was ready when
\* the pending timers were set) and every session has been answered, the
\* guidance loop is alive: a guidance cycle is in flight, or a pending guidance
\* timer will start one when it fires (its guard does not fail at every
\* firing), whatever was in flight when guidance mode was entered.
C39_GuidanceLoopAlive ==
    (/\ currentMode = "guidance"
     /\ isCameraReady
     /\ \A i \in 1..Len(guidanceTimers) : guidanceTimers[i].cam
     /\ \A c \in CycleIds : cycles[c].pc # "hung") =>
        \/ \E i \in 1..Len(guidanceTimers) : GuidanceGuardPasses(guidanceTimers[i])
        \/ \E c \in CycleIds : /\ cycles[c].mode = "guidance"
                               /\ cycles[c].pc \in InFlightPcs


\* C40: at most one guidance timer is pending, and guidanceTimerRef refers to
\* the pending one.
C40_OneGuidanceTimerUnderRef ==
    /\ Len(guidanceTimers) <= 1
    /\ guidanceTimers # << >> => guidanceTimerRef = 1

====
